---- MODULE Spec2Model ----
(***************************************************************************)
(* The kitties pallet (pallets/kitties/src/lib.rs): a registry of kitties  *)
(* with the four dispatchable calls create, breed, set_price and           *)
(* buy_kitty, one call executed at a time.                                 *)
(*                                                                         *)
(* Option<T> is modelled as a sequence: None is << >>, Some(v) is <<v>>.  *)
(* KittyIndex is u32 in the source; the model keeps the wrap-around        *)
(* arithmetic with a scaled-down maximum MaxKittyIndex.                    *)
(***************************************************************************)
EXTENDS Integers, Sequences, FiniteSets

(* ------------------------------ bounds -------------------------------- *)

\* Stand-in for KittyIndex::max_value() (u32::MAX in the source).
MaxKittyIndex == 3

\* Cap on the number of issuances (create + breed) in a run of SpecIssue.
MaxIssued == 5

\* Cap on the number of issuances (create + breed) in a run of Spec.
MaxKitties == 3
MaxPrice == 2

(* ------------------------- types and constants ------------------------- *)

\* [u8; 16]
DnaLen == 16

None == << >>

Some(v) == <<v>>

IsSome(o) == o # None

Unwrap(o) == o[1]

KittyIndex == 0 .. MaxKittyIndex

\* Accounts that sign calls, and the accounts of the ledger.
Signers == {"alice", "bob"}

Accounts == Signers \cup {"carol"}

\* Prices passed to set_price.
Prices == {0, 2}

\* Minimum balance an account keeps under ExistenceRequirement::KeepAlive.
ExistentialDeposit == 1

\* Genesis balances of the ledger (T::Currency): with the price 2, alice can
\* pay but not stay alive, bob can pay once, carol holds the minimum.
GenesisBalance ==
    [a \in Accounts |->
        CASE a = "alice" -> ExistentialDeposit + 1
          [] a = "bob" -> ExistentialDeposit + 2
          [] OTHER -> ExistentialDeposit]

VARIABLES
    KittiesCount,   \* StorageValue<KittyIndex>: None or Some(index)
    Kitties,        \* StorageMap KittyIndex -> Kitty {dna, price}
    Owner,          \* StorageMap KittyIndex -> AccountId
    balance,        \* the ledger behind T::Currency: free balance per account
    issued,         \* history: the identifiers issued so far, in order
    call,           \* name of the most recent dispatchable call
    result,         \* its DispatchResult: "Ok" or the error name
    event           \* the event it deposited, or NoEvent

vars == <<KittiesCount, Kitties, Owner, balance, issued, call, result, event>>

(* ------------------------------ helpers -------------------------------- *)

\* StorageMap::insert: adds the key or overwrites its value.
Insert(map, k, v) == [x \in (DOMAIN map) \cup {k} |-> IF x = k THEN v ELSE map[x]]

\* u8 bitwise and / or, bit by bit.
RECURSIVE AndBits(_, _)
AndBits(x, y) ==
    IF x = 0 \/ y = 0 THEN 0
    ELSE (x % 2) * (y % 2) + 2 * AndBits(x \div 2, y \div 2)

RECURSIVE OrBits(_, _)
OrBits(x, y) ==
    IF x = 0 THEN y
    ELSE IF y = 0 THEN x
    ELSE (IF x % 2 = 1 \/ y % 2 = 1 THEN 1 ELSE 0) + 2 * OrBits(x \div 2, y \div 2)

Byte == 0 .. 255

\* The two operations tabulated over all pairs of bytes.
AndTable == [x \in Byte |-> [y \in Byte |-> AndBits(x, y)]]

OrTable == [x \in Byte |-> [y \in Byte |-> OrBits(x, y)]]

BitAnd(x, y) == AndTable[x][y]

BitOr(x, y) == OrTable[x][y]

\* A wider sample of the values gen_dna() can return, for SpecBreed: all
\* 0x00, all 0xFF, all 0x0F, and two genomes that differ in every byte.
SampleGenomes ==
    { [i \in 1 .. DnaLen |-> 0],
      [i \in 1 .. DnaLen |-> 255],
      [i \in 1 .. DnaLen |-> 15],
      [i \in 1 .. DnaLen |-> i - 1],
      [i \in 1 .. DnaLen |-> 17 * (i - 1)] }

\* Values gen_dna() can return: blake2_128 of (randomness, block number) is an
\* arbitrary 16-byte value; the model draws it from two sample genomes.
GenDnaOutputs == { [i \in 1 .. DnaLen |-> 255], [i \in 1 .. DnaLen |-> i - 1] }

NewKitty(dna) == [dna |-> dna, price |-> None]

NoEvent == [name |-> "none", accounts |-> << >>, nums |-> << >>]

Ev(name, accounts, nums) == [name |-> name, accounts |-> accounts, nums |-> nums]

\* An Err return: nothing is written and no event is deposited.
Fail(op, err) ==
    /\ call' = op
    /\ result' = err
    /\ event' = NoEvent
    /\ UNCHANGED <<KittiesCount, Kitties, Owner, balance, issued>>

\* A successful return.
Done(op, ev) ==
    /\ call' = op
    /\ result' = "Ok"
    /\ event' = ev

(* ------------------------------- Init ---------------------------------- *)

Init ==
    /\ KittiesCount = None
    /\ Kitties = << >>
    /\ Owner = << >>
    /\ balance = GenesisBalance
    /\ issued = << >>
    /\ call = "none"
    /\ result = "Ok"
    /\ event = NoEvent

(* ------------------------------ create --------------------------------- *)

\* Mutant of Store: the owner record is not written.
StoreWithoutOwner(kitty_id, kitty, who) ==
    /\ Kitties' = Insert(Kitties, kitty_id, kitty)
    /\ UNCHANGED Owner

\* Kitties::insert(kitty_id, kitty); Owner::insert(kitty_id, who)
Store(kitty_id, kitty, who) ==
    /\ Kitties' = Insert(Kitties, kitty_id, kitty)
    /\ Owner' = Insert(Owner, kitty_id, who)

\* Mutant of CountOverflow: the comparison is off by one.
CountOverflowOffByOne(index) == index > MaxKittyIndex

\* ensure!(index != KittyIndex::max_value(), KittiesCountOverflow)
CountOverflow(index) == index = MaxKittyIndex

\* create, with gen_dna() returning a value of dnas.
create_from(who, dnas) ==
    IF IsSome(KittiesCount) /\ CountOverflow(Unwrap(KittiesCount))
    THEN Fail("create", "KittiesCountOverflow")
    ELSE
        LET kitty_id == IF KittiesCount = None THEN 1 ELSE Unwrap(KittiesCount) IN
        /\ \E dna \in dnas : Store(kitty_id, NewKitty(dna), who)
        /\ KittiesCount' = Some(kitty_id + 1)
        /\ issued' = Append(issued, kitty_id)
        /\ UNCHANGED balance
        /\ Done("create", Ev("KittyCreate", <<who>>, <<kitty_id>>))

create(who) == create_from(who, GenDnaOutputs)

(* ------------------------------- breed --------------------------------- *)

\* Mutant of BreedDna: a per-bit selector, dna_1 where the selector bit is 1
\* and dna_2 where it is 0.
BreedDnaPerBitSelector(selector, dna_1, dna_2) ==
    [i \in 1 .. DnaLen |->
        BitOr(BitAnd(selector[i], dna_1[i]), BitAnd(255 - selector[i], dna_2[i]))]

\* new_dna[i] = selector[i] & dna_1[i] | (selector[i] & dna_2[i])
BreedDna(selector, dna_1, dna_2) ==
    [i \in 1 .. DnaLen |->
        BitOr(BitAnd(selector[i], dna_1[i]), BitAnd(selector[i], dna_2[i]))]

\* A panic inside a dispatchable: the call does not return and the storage
\* changes of the extrinsic are discarded.
Panic(op) ==
    /\ call' = op
    /\ result' = "Panic"
    /\ event' = NoEvent
    /\ UNCHANGED <<KittiesCount, Kitties, Owner, balance, issued>>

\* kitty_id + 1 on a KittyIndex (u32) in a build without overflow checks.
WrappingSucc(kitty_id) == (kitty_id + 1) % (MaxKittyIndex + 1)

\* The identifier breed issues: match Self::kitties_count() { None => 1, Some(id) => id }
BreedKittyId(count) == IF count = None THEN 1 ELSE Unwrap(count)

\* Mutant of breed_from: the parents are looked up before they are compared.
breed_from_lookup_first(who, kitty_id_1, kitty_id_2, dnas) ==
    IF kitty_id_1 \notin DOMAIN Kitties
    THEN Fail("breed", "InvalidKittyIndex")
    ELSE IF kitty_id_2 \notin DOMAIN Kitties
    THEN Fail("breed", "InvalidKittyIndex")
    ELSE IF kitty_id_1 = kitty_id_2
    THEN Fail("breed", "GenesCanNotSame")
    ELSE
        LET kitty_id == BreedKittyId(KittiesCount)
            dna_1 == Kitties[kitty_id_1].dna
            dna_2 == Kitties[kitty_id_2].dna
        IN
        \E selector \in dnas,
           overflow_checks \in (IF kitty_id = MaxKittyIndex THEN BOOLEAN ELSE {FALSE}) :
              IF kitty_id = MaxKittyIndex /\ overflow_checks
              THEN Panic("breed")
              ELSE
                  /\ Store(kitty_id, NewKitty(BreedDna(selector, dna_1, dna_2)), who)
                  /\ KittiesCount' = Some(WrappingSucc(kitty_id))
                  /\ issued' = Append(issued, kitty_id)
                  /\ UNCHANGED balance
                  /\ Done("breed", Ev("BreedSuccess", <<who>>, <<kitty_id_1, kitty_id_2>>))

\* breed, with gen_dna() returning a value of dnas.
breed_from(who, kitty_id_1, kitty_id_2, dnas) ==
    IF kitty_id_1 = kitty_id_2
    THEN Fail("breed", "GenesCanNotSame")
    ELSE IF kitty_id_1 \notin DOMAIN Kitties
    THEN Fail("breed", "InvalidKittyIndex")
    ELSE IF kitty_id_2 \notin DOMAIN Kitties
    THEN Fail("breed", "InvalidKittyIndex")
    ELSE
        LET kitty_id == BreedKittyId(KittiesCount)
            dna_1 == Kitties[kitty_id_1].dna
            dna_2 == Kitties[kitty_id_2].dna
        IN
        \* kitty_id + 1 overflows when kitty_id is the maximum: a build with
        \* overflow checks panics there, a build without them wraps to 0.
        \E selector \in dnas,
           overflow_checks \in (IF kitty_id = MaxKittyIndex THEN BOOLEAN ELSE {FALSE}) :
              IF kitty_id = MaxKittyIndex /\ overflow_checks
              THEN Panic("breed")
              ELSE
                  /\ Store(kitty_id, NewKitty(BreedDna(selector, dna_1, dna_2)), who)
                  /\ KittiesCount' = Some(WrappingSucc(kitty_id))
                  /\ issued' = Append(issued, kitty_id)
                  /\ UNCHANGED balance
                  /\ Done("breed", Ev("BreedSuccess", <<who>>, <<kitty_id_1, kitty_id_2>>))

breed(who, kitty_id_1, kitty_id_2) ==
    breed_from(who, kitty_id_1, kitty_id_2, GenDnaOutputs)

(* ----------------------------- set_price ------------------------------- *)

\* Self::owner(&kitty_id)
OwnerOf(kitty_id) == IF kitty_id \in DOMAIN Owner THEN Some(Owner[kitty_id]) ELSE None

\* Mutant of IsOwner: any existing kitty passes, whoever owns it.
IsOwnerAnyone(sender, kitty_id) == OwnerOf(kitty_id) # None

\* ensure!(Self::owner(&kitty_id) == Some(sender), NotOwner)
IsOwner(sender, kitty_id) == OwnerOf(kitty_id) = Some(sender)

\* Mutant of PriceAccepted: zero passes.
PriceAcceptedZero(price) == price >= 0

\* ensure!(price > 0u32.into(), PriceNotZero)
PriceAccepted(price) == price > 0

\* Mutant of set_price: the price is stored before it is checked, and the
\* write survives the Err.
set_price_writes_first(sender, kitty_id, price) ==
    IF kitty_id \notin DOMAIN Kitties
    THEN Fail("set_price", "InvalidKittyIndex")
    ELSE IF ~IsOwner(sender, kitty_id)
    THEN Fail("set_price", "NotOwner")
    ELSE
        /\ Kitties' = Insert(Kitties, kitty_id,
                             [Kitties[kitty_id] EXCEPT !.price = Some(price)])
        /\ UNCHANGED <<KittiesCount, Owner, balance, issued>>
        /\ IF ~PriceAccepted(price)
           THEN call' = "set_price" /\ result' = "PriceNotZero" /\ event' = NoEvent
           ELSE Done("set_price", Ev("SetPriceSuccess", <<sender>>, <<kitty_id, price>>))

\* Mutant of set_price: a price that is already set is not overwritten.
set_price_keeps_earlier(sender, kitty_id, price) ==
    IF kitty_id \notin DOMAIN Kitties
    THEN Fail("set_price", "InvalidKittyIndex")
    ELSE IF ~IsOwner(sender, kitty_id)
    THEN Fail("set_price", "NotOwner")
    ELSE IF ~PriceAccepted(price)
    THEN Fail("set_price", "PriceNotZero")
    ELSE
        /\ Kitties' = IF Kitties[kitty_id].price # None
                      THEN Kitties
                      ELSE Insert(Kitties, kitty_id,
                                  [Kitties[kitty_id] EXCEPT !.price = Some(price)])
        /\ UNCHANGED <<KittiesCount, Owner, balance, issued>>
        /\ Done("set_price", Ev("SetPriceSuccess", <<sender>>, <<kitty_id, price>>))

set_price(sender, kitty_id, price) ==
    IF kitty_id \notin DOMAIN Kitties
    THEN Fail("set_price", "InvalidKittyIndex")
    ELSE IF ~IsOwner(sender, kitty_id)
    THEN Fail("set_price", "NotOwner")
    ELSE IF ~PriceAccepted(price)
    THEN Fail("set_price", "PriceNotZero")
    ELSE
        /\ Kitties' = Insert(Kitties, kitty_id,
                             [Kitties[kitty_id] EXCEPT !.price = Some(price)])
        /\ UNCHANGED <<KittiesCount, Owner, balance, issued>>
        /\ Done("set_price", Ev("SetPriceSuccess", <<sender>>, <<kitty_id, price>>))

(* ----------------------------- buy_kitty ------------------------------- *)

\* Mutant of TransferOk: ExistenceRequirement::AllowDeath, the payer need not
\* keep the existential deposit.
TransferOkAllowDeath(bal, from, to, value) ==
    \/ from = to
    \/ /\ bal[from] >= value
       /\ bal[to] + value >= ExistentialDeposit

\* T::Currency::transfer(from, to, value, KeepAlive) returns Ok: a transfer to
\* oneself moves nothing; otherwise the payer must hold the value and keep the
\* existential deposit, and the payee must end at or above it.
TransferOk(bal, from, to, value) ==
    \/ from = to
    \/ /\ bal[from] >= value
       /\ bal[from] - value >= ExistentialDeposit
       /\ bal[to] + value >= ExistentialDeposit

\* Mutant of Transfer: payer and payee are swapped.
TransferSwapped(bal, from, to, value) ==
    IF from = to THEN bal
    ELSE [bal EXCEPT ![to] = bal[to] - value, ![from] = bal[from] + value]

\* The balances after a successful transfer.
Transfer(bal, from, to, value) ==
    IF from = to THEN bal
    ELSE [bal EXCEPT ![from] = bal[from] - value, ![to] = bal[to] + value]

\* Mutant of Sold: the price is left as it was.
SoldKeepsPrice(kitty) == kitty

\* The kitty stored by buy_kitty: kitty.price = None
Sold(kitty) == [kitty EXCEPT !.price = None]

\* Mutant of Purchase: the owner is written before the transfer and the write
\* survives the transfer's Err.
PurchaseWritesFirst(buyer, seller_id, kitty_id, kitty) ==
    IF ~TransferOk(balance, buyer, seller_id, Unwrap(kitty.price))
    THEN
        /\ Owner' = Insert(Owner, kitty_id, buyer)
        /\ UNCHANGED <<KittiesCount, Kitties, balance, issued>>
        /\ call' = "buy_kitty"
        /\ result' = "TransferError"
        /\ event' = NoEvent
    ELSE
        /\ balance' = Transfer(balance, buyer, seller_id, Unwrap(kitty.price))
        /\ Owner' = Insert(Owner, kitty_id, buyer)
        /\ Kitties' = Insert(Kitties, kitty_id, Sold(kitty))
        /\ UNCHANGED <<KittiesCount, issued>>
        /\ Done("buy_kitty", Ev("TransferSuccess", <<buyer, seller_id>>, <<kitty_id>>))

\* The transfer and the writes that follow it. The call is #[transactional]
\* and the transfer is its last failure point: an Err writes nothing.
Purchase(buyer, seller_id, kitty_id, kitty) ==
    IF ~TransferOk(balance, buyer, seller_id, Unwrap(kitty.price))
    THEN Fail("buy_kitty", "TransferError")
    ELSE
        /\ balance' = Transfer(balance, buyer, seller_id, Unwrap(kitty.price))
        /\ Owner' = Insert(Owner, kitty_id, buyer)
        /\ Kitties' = Insert(Kitties, kitty_id, Sold(kitty))
        /\ UNCHANGED <<KittiesCount, issued>>
        /\ Done("buy_kitty", Ev("TransferSuccess", <<buyer, seller_id>>, <<kitty_id>>))

\* Mutant of buy_kitty: the owner may not buy their own kitty.
buy_kitty_not_yourself(buyer, kitty_id) ==
    IF kitty_id \notin DOMAIN Kitties
    THEN Fail("buy_kitty", "InvalidKittyIndex")
    ELSE
        LET kitty == Kitties[kitty_id] IN
        IF kitty.price = None
        THEN Fail("buy_kitty", "PriceIsNone")
        ELSE IF ~(balance[buyer] >= Unwrap(kitty.price))
        THEN Fail("buy_kitty", "MoneyNotEnough")
        ELSE IF kitty_id \notin DOMAIN Owner
        THEN Panic("buy_kitty")
        ELSE IF Owner[kitty_id] = buyer
        THEN Fail("buy_kitty", "CanNotYourSelf")
        ELSE Purchase(buyer, Owner[kitty_id], kitty_id, kitty)

\* Mutant of buy_kitty: the funds check is strict (free_balance > price).
buy_kitty_strict_funds(buyer, kitty_id) ==
    IF kitty_id \notin DOMAIN Kitties
    THEN Fail("buy_kitty", "InvalidKittyIndex")
    ELSE
        LET kitty == Kitties[kitty_id] IN
        IF kitty.price = None
        THEN Fail("buy_kitty", "PriceIsNone")
        ELSE IF ~(balance[buyer] > Unwrap(kitty.price))
        THEN Fail("buy_kitty", "MoneyNotEnough")
        ELSE IF kitty_id \notin DOMAIN Owner
        THEN Panic("buy_kitty")
        ELSE Purchase(buyer, Owner[kitty_id], kitty_id, kitty)

buy_kitty(buyer, kitty_id) ==
    IF kitty_id \notin DOMAIN Kitties
    THEN Fail("buy_kitty", "InvalidKittyIndex")
    ELSE
        LET kitty == Kitties[kitty_id] IN
        IF kitty.price = None
        THEN Fail("buy_kitty", "PriceIsNone")
        ELSE IF ~(balance[buyer] >= Unwrap(kitty.price))
        THEN Fail("buy_kitty", "MoneyNotEnough")
        ELSE IF kitty_id \notin DOMAIN Owner
        THEN Panic("buy_kitty")
        ELSE Purchase(buyer, Owner[kitty_id], kitty_id, kitty)

(* ---------------------------- specification ---------------------------- *)

\* The four calls, with at most MaxKitties issuances in a run.
Next ==
    \/ \E who \in Signers : Len(issued) < MaxKitties /\ create(who)
    \/ \E who \in Signers, kitty_id_1, kitty_id_2 \in KittyIndex :
          Len(issued) < MaxKitties /\ breed(who, kitty_id_1, kitty_id_2)
    \/ \E sender \in Signers, kitty_id \in KittyIndex, price \in Prices :
          set_price(sender, kitty_id, price)
    \/ \E buyer \in Signers, kitty_id \in KittyIndex : buy_kitty(buyer, kitty_id)

Spec == Init /\ [][Next]_vars

\* create and breed alone, with at most MaxIssued issuances in a run.
NextIssue ==
    \/ \E who \in Signers : Len(issued) < MaxIssued /\ create(who)
    \/ \E who \in Signers, kitty_id_1, kitty_id_2 \in KittyIndex :
          Len(issued) < MaxIssued /\ breed(who, kitty_id_1, kitty_id_2)

SpecIssue == Init /\ [][NextIssue]_vars

\* The genome a call stores does not depend on its caller: SpecBreed has one.
BreedSigners == {"alice"}

\* create and breed with gen_dna() drawn from SampleGenomes, with at most
\* MaxKitties issuances in a run.
NextBreed ==
    \/ \E who \in BreedSigners :
          Len(issued) < MaxKitties /\ create_from(who, SampleGenomes)
    \/ \E who \in BreedSigners, kitty_id_1, kitty_id_2 \in KittyIndex :
          Len(issued) < MaxKitties /\ breed_from(who, kitty_id_1, kitty_id_2, SampleGenomes)

SpecBreed == Init /\ [][NextBreed]_vars

\* The prices offered to set_price in SpecPrice.
OfferedPrices == 0 .. MaxPrice

\* create and set_price alone, with at most MaxKitties issuances in a run and
\* every price of OfferedPrices.
NextPrice ==
    \/ \E who \in Signers : Len(issued) < MaxKitties /\ create(who)
    \/ \E sender \in Signers, kitty_id \in KittyIndex, price \in OfferedPrices :
          set_price(sender, kitty_id, price)

SpecPrice == Init /\ [][NextPrice]_vars

(* ------------------------------ properties ----------------------------- *)

RECURSIVE SumOver(_, _)
SumOver(bal, accts) ==
    IF accts = {} THEN 0
    ELSE LET a == CHOOSE x \in accts : TRUE IN bal[a] + SumOver(bal, accts \ {a})

\* The sum of all balances of the ledger.
TotalBalance(bal) == SumOver(bal, Accounts)

\* C1: in every reachable state the identifiers with an asset record are
\* exactly the identifiers with an owner record.
C1_RegistryConsistent == DOMAIN Kitties = DOMAIN Owner

\* C1 witness: a purchase has succeeded in a registry of several kitties.
C1_Witness ==
    /\ call = "buy_kitty"
    /\ result = "Ok"
    /\ Cardinality(DOMAIN Kitties) >= 2
    /\ DOMAIN Kitties = DOMAIN Owner

\* C2 (as claimed): the k-th issuance receives identifier k, so no identifier is
\* issued twice and 0 is never issued, and after N issuances the counter holds
\* N + 1, above every identifier issued.
C2_IssuedInOrder ==
    /\ \A k \in 1 .. Len(issued) : issued[k] = k
    /\ Len(issued) > 0 => KittiesCount = Some(Len(issued) + 1)
    /\ Len(issued) = 0 => KittiesCount = None

\* The buy of kitty_id by buyer reaches the transfer, and the ledger rejects it.
TransferRejected(buyer, kitty_id) ==
    /\ kitty_id \in DOMAIN Kitties
    /\ kitty_id \in DOMAIN Owner
    /\ Kitties[kitty_id].price # None
    /\ balance[buyer] >= Unwrap(Kitties[kitty_id].price)
    /\ ~TransferOk(balance, buyer, Owner[kitty_id], Unwrap(Kitties[kitty_id].price))

\* C3: a buy_kitty whose transfer the ledger rejects fails, and leaves every
\* asset, every owner, the counter and every balance as they were.
C3_RejectedTransferChangesNothing ==
    [][\A buyer \in Signers, kitty_id \in KittyIndex :
          (/\ call' = "buy_kitty"
           /\ TransferRejected(buyer, kitty_id)
           /\ buy_kitty(buyer, kitty_id))
              => /\ result' # "Ok"
                 /\ UNCHANGED <<KittiesCount, Kitties, Owner, balance>>]_vars

\* C3 witness: a buy_kitty has just failed in the transfer, on a priced kitty
\* of another account.
C3_Witness ==
    /\ call = "buy_kitty"
    /\ result = "TransferError"
    /\ \E buyer \in Signers, kitty_id \in DOMAIN Kitties :
          /\ TransferRejected(buyer, kitty_id)
          /\ Owner[kitty_id] # buyer

\* C4: after every successful buy_kitty(buyer, kitty_id) the owner of kitty_id
\* is buyer and its price is None.
C4_BuyAssignsOwnerAndClearsPrice ==
    [][\A buyer \in Signers, kitty_id \in KittyIndex :
          (/\ call' = "buy_kitty"
           /\ result' = "Ok"
           /\ buy_kitty(buyer, kitty_id))
              => /\ Owner'[kitty_id] = buyer
                 /\ Kitties'[kitty_id].price = None]_vars

\* C4 witness: a purchase from another account has succeeded; the kitty is now
\* the buyer's and has no price.
C4_Witness ==
    /\ call = "buy_kitty"
    /\ result = "Ok"
    /\ event.accounts[1] # event.accounts[2]
    /\ Owner[event.nums[1]] = event.accounts[1]
    /\ Kitties[event.nums[1]].price = None

\* C5: a successful buy_kitty by a buyer other than the owner moves exactly the
\* listed price from the buyer to the previous owner, changes no other balance
\* and preserves the sum of all balances.
C5_BuyMovesThePrice ==
    [][\A buyer \in Signers, kitty_id \in KittyIndex :
          (/\ call' = "buy_kitty"
           /\ result' = "Ok"
           /\ kitty_id \in DOMAIN Owner
           /\ Owner[kitty_id] # buyer
           /\ buy_kitty(buyer, kitty_id))
              => LET price == Unwrap(Kitties[kitty_id].price)
                     seller == Owner[kitty_id]
                 IN /\ balance'[buyer] = balance[buyer] - price
                    /\ balance'[seller] = balance[seller] + price
                    /\ \A a \in Accounts \ {buyer, seller} : balance'[a] = balance[a]
                    /\ TotalBalance(balance') = TotalBalance(balance)]_vars

\* C5 witness: a purchase from another account has succeeded and the balances
\* are no longer the genesis balances.
C5_Witness ==
    /\ call = "buy_kitty"
    /\ result = "Ok"
    /\ event.accounts[1] # event.accounts[2]
    /\ balance # GenesisBalance
    /\ TotalBalance(balance) = TotalBalance(GenesisBalance)

\* C6 (as claimed): the genome stored under an identifier never changes.
C6_GenomeImmutable ==
    [][\A kitty_id \in DOMAIN Kitties :
          /\ kitty_id \in DOMAIN Kitties'
          /\ Kitties'[kitty_id].dna = Kitties[kitty_id].dna]_vars

\* C7: set_price by a caller who is not the owner of an existing kitty fails
\* with NotOwner, whatever the price, and leaves every asset as it was.
C7_NonOwnerCannotSetPrice ==
    [][\A sender \in Signers, kitty_id \in KittyIndex, price \in Prices :
          (/\ call' = "set_price"
           /\ kitty_id \in DOMAIN Owner
           /\ Owner[kitty_id] # sender
           /\ set_price(sender, kitty_id, price))
              => /\ result' = "NotOwner"
                 /\ UNCHANGED <<Kitties, Owner>>]_vars

\* C7 witness: a set_price has just failed with NotOwner.
C7_Witness ==
    /\ call = "set_price"
    /\ result = "NotOwner"
    /\ \E kitty_id \in DOMAIN Owner, sender \in Signers : Owner[kitty_id] # sender

\* C8 (as claimed): a breed of two existing kitties made when the counter is
\* the maximum is rejected with KittiesCountOverflow and changes nothing, and
\* the counter never wraps to 0.
C8_BreedAtMaxRejected ==
    [][/\ \A who \in Signers, kitty_id_1, kitty_id_2 \in KittyIndex :
             (/\ call' = "breed"
              /\ KittiesCount = Some(MaxKittyIndex)
              /\ kitty_id_1 # kitty_id_2
              /\ {kitty_id_1, kitty_id_2} \subseteq DOMAIN Kitties
              /\ breed(who, kitty_id_1, kitty_id_2))
                 => /\ result' = "KittiesCountOverflow"
                    /\ UNCHANGED <<KittiesCount, Kitties, Owner>>
       /\ KittiesCount' # Some(0)]_vars

\* C9: create with the counter at the maximum fails with KittiesCountOverflow
\* and leaves counter, assets and owners as they were; any other create succeeds.
C9_CreateOverflow ==
    [][\A who \in Signers :
          (call' = "create" /\ create(who))
              => IF KittiesCount = Some(MaxKittyIndex)
                 THEN /\ result' = "KittiesCountOverflow"
                      /\ UNCHANGED <<KittiesCount, Kitties, Owner>>
                 ELSE /\ result' = "Ok"
                      /\ Len(issued') = Len(issued) + 1]_vars

\* C9 witness: a create has just failed with KittiesCountOverflow at the maximum.
C9_Witness ==
    /\ call = "create"
    /\ result = "KittiesCountOverflow"
    /\ KittiesCount = Some(MaxKittyIndex)

\* C10: every stored price is None or strictly positive, and set_price with
\* price 0 stores nothing; from the owner of an existing kitty it fails with
\* PriceNotZero.
C10_PricesPositive ==
    [][/\ \A kitty_id \in DOMAIN Kitties' :
             LET price == Kitties'[kitty_id].price IN
             price = None \/ Unwrap(price) > 0
       /\ \A sender \in Signers, kitty_id \in KittyIndex :
             (call' = "set_price" /\ set_price(sender, kitty_id, 0))
                 => /\ result' # "Ok"
                    /\ UNCHANGED Kitties
                    /\ (kitty_id \in DOMAIN Kitties /\ IsOwner(sender, kitty_id))
                          => result' = "PriceNotZero"]_vars

\* C10 witness: a set_price has just failed with PriceNotZero while a positive
\* price is stored.
C10_Witness ==
    /\ call = "set_price"
    /\ result = "PriceNotZero"
    /\ \E kitty_id \in DOMAIN Kitties : Kitties[kitty_id].price = Some(2)

\* Bit b (0 = least significant) of the byte x.
Bit(x, b) == (x \div (2 ^ b)) % 2

\* C11: the child genome stored by a successful breed with mask M on parents
\* A and B is a genome of 16 bytes whose every bit is (M and A) or (M and B),
\* so it is 0 wherever the mask bit is 0; A = 0x00, B = 0xFF, M = 0x0F give 0x0F.
C11_BreedFormula ==
    [][(call' = "breed" /\ result' = "Ok") =>
       \A who \in BreedSigners, kitty_id_1, kitty_id_2 \in DOMAIN Kitties,
          M \in SampleGenomes :
          (/\ kitty_id_1 # kitty_id_2
           /\ breed_from(who, kitty_id_1, kitty_id_2, {M}))
              => LET A == Kitties[kitty_id_1].dna
                     B == Kitties[kitty_id_2].dna
                     child == Kitties'[BreedKittyId(KittiesCount)].dna
                 IN /\ DOMAIN child = 1 .. 16
                    /\ \A i \in 1 .. 16 :
                          /\ child[i] \in 0 .. 255
                          /\ \A b \in 0 .. 7 :
                                /\ Bit(child[i], b) = 1
                                      <=> \/ Bit(M[i], b) = 1 /\ Bit(A[i], b) = 1
                                          \/ Bit(M[i], b) = 1 /\ Bit(B[i], b) = 1
                                /\ Bit(M[i], b) = 0 => Bit(child[i], b) = 0
                    /\ (/\ \A i \in 1 .. 16 : A[i] = 0 /\ B[i] = 255 /\ M[i] = 15)
                          => \A i \in 1 .. 16 : child[i] = 15]_vars

\* C11 witness: a breed of a 0x00 parent with a 0xFF parent has stored a child,
\* and the child is 0x0F in every byte.
C11_Witness ==
    /\ call = "breed"
    /\ result = "Ok"
    /\ event.nums = <<1, 2>>
    /\ {1, 2, issued[Len(issued)]} \subseteq DOMAIN Kitties
    /\ issued[Len(issued)] \notin {1, 2}
    /\ \A i \in 1 .. 16 :
          /\ Kitties[1].dna[i] = 0
          /\ Kitties[2].dna[i] = 255
          /\ Kitties[issued[Len(issued)]].dna[i] = 15

\* C12 (as claimed): every breed of two distinct existing kitties succeeds,
\* whoever owns them: the child is stored under the next identifier with no
\* price and the caller as owner, and both parents' records are unchanged.
C12_BreedOfExistingSucceeds ==
    [][(call' = "breed") =>
       \A who \in Signers, kitty_id_1, kitty_id_2 \in DOMAIN Kitties :
          (kitty_id_1 # kitty_id_2 /\ breed(who, kitty_id_1, kitty_id_2))
              => LET child == BreedKittyId(KittiesCount) IN
                 /\ result' = "Ok"
                 /\ child \in DOMAIN Kitties'
                 /\ Kitties'[child].price = None
                 /\ Owner'[child] = who
                 /\ \A parent \in {kitty_id_1, kitty_id_2} :
                       /\ Kitties'[parent] = Kitties[parent]
                       /\ Owner'[parent] = Owner[parent]]_vars

\* C13 (as claimed): the output of a successful breed carries the identifier
\* of the child it issued, as the output of a successful create carries the
\* identifier it issued.
C13_BreedReportsChild ==
    /\ (call = "create" /\ result = "Ok") => event.nums = <<issued[Len(issued)]>>
    /\ (call = "breed" /\ result = "Ok")
          => \E n \in DOMAIN event.nums : event.nums[n] = issued[Len(issued)]

\* C14: a call that does not return Ok leaves counter, assets and owners as
\* they were and deposits no event; a TransferSuccess event is deposited only
\* by a buy_kitty that returned Ok, moved the price from buyer to seller, made
\* the buyer the owner and cleared the price.
C14_FailureChangesNothing ==
    [][/\ result' # "Ok"
             => /\ UNCHANGED <<KittiesCount, Kitties, Owner>>
                /\ event' = NoEvent
       /\ event'.name = "TransferSuccess"
             => LET buyer == event'.accounts[1]
                    seller == event'.accounts[2]
                    kitty_id == event'.nums[1]
                IN /\ call' = "buy_kitty"
                   /\ result' = "Ok"
                   /\ Owner[kitty_id] = seller
                   /\ Owner'[kitty_id] = buyer
                   /\ Kitties[kitty_id].price # None
                   /\ Kitties'[kitty_id].price = None
                   /\ buyer # seller
                         => LET price == Unwrap(Kitties[kitty_id].price) IN
                            /\ balance'[buyer] = balance[buyer] - price
                            /\ balance'[seller] = balance[seller] + price]_vars

\* C14 witness: a buy_kitty of a priced kitty has just failed for lack of funds
\* and deposited nothing.
C14_Witness ==
    /\ call = "buy_kitty"
    /\ result = "MoneyNotEnough"
    /\ event = NoEvent
    /\ \E kitty_id \in DOMAIN Kitties : Kitties[kitty_id].price # None

\* C15: a successful buy_kitty from another account leaves the buyer at or
\* above the existential deposit; a buy_kitty whose buyer holds the price but
\* would be left below the existential deposit fails and changes nothing.
C15_BuyerStaysAlive ==
    [][(call' = "buy_kitty") =>
       \A buyer \in Signers, kitty_id \in DOMAIN Kitties :
          (/\ kitty_id \in DOMAIN Owner
           /\ Owner[kitty_id] # buyer
           /\ Kitties[kitty_id].price # None
           /\ buy_kitty(buyer, kitty_id))
              => LET price == Unwrap(Kitties[kitty_id].price) IN
                 /\ result' = "Ok" => balance'[buyer] >= ExistentialDeposit
                 /\ (/\ balance[buyer] >= price
                     /\ balance[buyer] - price < ExistentialDeposit)
                       => /\ result' # "Ok"
                          /\ UNCHANGED <<KittiesCount, Kitties, Owner, balance>>]_vars

\* C15 witness: a purchase from another account has succeeded and left the
\* buyer with exactly the existential deposit.
C15_Witness ==
    /\ call = "buy_kitty"
    /\ result = "Ok"
    /\ event.accounts[1] # event.accounts[2]
    /\ balance[event.accounts[1]] = ExistentialDeposit

\* C16: buy_kitty fails with InvalidKittyIndex exactly when the kitty does not
\* exist, with PriceIsNone exactly when it exists without a price (whatever the
\* buyer's balance), and with MoneyNotEnough exactly when it exists with a
\* price above the buyer's free balance.
C16_BuyChecksInOrder ==
    [][(call' = "buy_kitty") =>
       \A buyer \in Signers, kitty_id \in KittyIndex :
          buy_kitty(buyer, kitty_id)
              => /\ result' = "InvalidKittyIndex" <=> kitty_id \notin DOMAIN Kitties
                 /\ result' = "PriceIsNone"
                       <=> /\ kitty_id \in DOMAIN Kitties
                           /\ Kitties[kitty_id].price = None
                 /\ result' = "MoneyNotEnough"
                       <=> /\ kitty_id \in DOMAIN Kitties
                           /\ Kitties[kitty_id].price # None
                           /\ balance[buyer] < Unwrap(Kitties[kitty_id].price)]_vars

\* C16 witness: a buy_kitty of a kitty without a price has just failed with
\* PriceIsNone while a signer holds less than any price.
C16_Witness ==
    /\ call = "buy_kitty"
    /\ result = "PriceIsNone"
    /\ \E kitty_id \in DOMAIN Kitties : Kitties[kitty_id].price = None
    /\ \E buyer \in Signers : \A price \in Prices \ {0} : balance[buyer] < price

\* C17: breed of a kitty with itself fails with GenesCanNotSame, whether or
\* not the kitty exists; breed of two distinct identifiers of which one has no
\* asset fails with InvalidKittyIndex; neither creates an asset or moves the
\* counter.
C17_BreedRejectsBadParents ==
    [][(call' = "breed") =>
       \A who \in Signers, kitty_id_1, kitty_id_2 \in KittyIndex :
          (/\ \/ kitty_id_1 = kitty_id_2
              \/ ~({kitty_id_1, kitty_id_2} \subseteq DOMAIN Kitties)
           /\ breed(who, kitty_id_1, kitty_id_2))
              => /\ result' = IF kitty_id_1 = kitty_id_2
                              THEN "GenesCanNotSame"
                              ELSE "InvalidKittyIndex"
                 /\ UNCHANGED <<KittiesCount, Kitties, Owner>>]_vars

\* C17 witness: a breed has just failed with GenesCanNotSame in the empty
\* registry, where no identifier has an asset.
C17_Witness ==
    /\ call = "breed"
    /\ result = "GenesCanNotSame"
    /\ Kitties = << >>
    /\ KittiesCount = None

\* C18: a successful set_price(caller, id, price) sets the price field of
\* asset id to price, overwriting any earlier one, and changes nothing else:
\* the genome of id, every other asset, every owner record, the counter and
\* all balances are as before.
C18_SetPriceFrame ==
    [][(call' = "set_price" /\ result' = "Ok") =>
       \A sender \in Signers, kitty_id \in DOMAIN Kitties, price \in OfferedPrices :
          set_price(sender, kitty_id, price)
              => /\ DOMAIN Kitties' = DOMAIN Kitties
                 /\ Kitties'[kitty_id].price = Some(price)
                 /\ Kitties'[kitty_id].dna = Kitties[kitty_id].dna
                 /\ \A other \in DOMAIN Kitties \ {kitty_id} :
                       Kitties'[other] = Kitties[other]
                 /\ UNCHANGED <<Owner, KittiesCount, balance>>]_vars

\* C18 witness: a set_price has just succeeded on one asset while another
\* asset carries a different price.
C18_Witness ==
    /\ call = "set_price"
    /\ result = "Ok"
    /\ \E kitty_id, priced \in DOMAIN Kitties :
          /\ Kitties[kitty_id].price # None
          /\ event.nums = <<kitty_id, Unwrap(Kitties[kitty_id].price)>>
          /\ Kitties[priced].price # None
          /\ Kitties[priced].price # Kitties[kitty_id].price

\* C19: an identifier that has an asset and an owner record keeps both in
\* every later state, and its owner record changes only in a successful
\* buy_kitty of that identifier.
C19_OwnerChangesOnlyByBuy ==
    [][\A kitty_id \in DOMAIN Kitties \cap DOMAIN Owner :
          /\ kitty_id \in DOMAIN Kitties'
          /\ kitty_id \in DOMAIN Owner'
          /\ Owner'[kitty_id] # Owner[kitty_id]
                => /\ call' = "buy_kitty"
                   /\ result' = "Ok"
                   /\ event'.nums = <<kitty_id>>]_vars

\* C20: the owner buying their own priced asset with free balance >= price
\* succeeds, stays the owner, clears the price and moves no balance; no
\* operation returns CanNotYourSelf.
C20_OwnerMayBuyOwnKitty ==
    [][/\ result' # "CanNotYourSelf"
       /\ (call' = "buy_kitty") =>
             \A buyer \in Signers, kitty_id \in DOMAIN Kitties :
                (/\ kitty_id \in DOMAIN Owner
                 /\ Owner[kitty_id] = buyer
                 /\ Kitties[kitty_id].price # None
                 /\ balance[buyer] >= Unwrap(Kitties[kitty_id].price)
                 /\ buy_kitty(buyer, kitty_id))
                    => /\ result' = "Ok"
                       /\ Owner'[kitty_id] = buyer
                       /\ Kitties'[kitty_id].price = None
                       /\ Kitties'[kitty_id].dna = Kitties[kitty_id].dna
                       /\ balance' = balance]_vars

\* C20 witness: a buy_kitty whose buyer was the seller has just succeeded.
C20_Witness ==
    /\ call = "buy_kitty"
    /\ result = "Ok"
    /\ event.name = "TransferSuccess"
    /\ event.accounts[1] = event.accounts[2]
    /\ Owner[event.nums[1]] = event.accounts[1]
    /\ Kitties[event.nums[1]].price = None

====
